---- MODULE Spec2Model ----
(***************************************************************************)
(* Model of utility.OutputWriter (src/utility/output_writer.go): the row   *)
(* accumulator (Keys, Labels, Values, TempValues) and its renderers.       *)
(* A Go string is a sequence of one-character strings; Go indices are      *)
(* 0-based and are kept 0-based in the string helpers.                     *)
(***************************************************************************)
EXTENDS Integers, Sequences, FiniteSets, TLC

VARIABLES Keys, Labels, Values, TempValues, tempCap, shared,
          out, panicked, started, inserted, relabelled

vars == <<Keys, Labels, Values, TempValues, tempCap, shared,
          out, panicked, started, inserted, relabelled>>

(***************************************************************************)
(* Bounds of the model.                                                    *)
(***************************************************************************)
MaxRows == 2
MaxCols == 2
MaxStart == 3
MaxLabelLen == 77

\* The width WriteSubheader centres within.
RuleWidth == 72

(***************************************************************************)
(* Inputs the callers are drawn from.                                      *)
(***************************************************************************)
ID == <<"I", "D">>
BID == <<"B", "I", "D">>
NM == <<"N">>
KeySet == {ID, BID, NM}
ValueSet == {<<"1">>, <<"9", "9">>}
LabelSet == {<<"L">>}
TemplateSet ==
  { BID,
    <<"I", "D", " ", "I", "D">>,
    <<"$", "0", "$", "I", "D">>,
    <<"N", "\\", "t", "I", "D">> }

(***************************************************************************)
(* String helpers (package strings, fmt, strconv).                         *)
(***************************************************************************)
Range(s) == {s[i] : i \in DOMAIN s}

\* Go's s[a:b]
Slice(s, a, b) == SubSeq(s, a + 1, b)

HasAt(s, sub, i) == /\ i + Len(sub) <= Len(s)
                    /\ Slice(s, i, i + Len(sub)) = sub

\* strings.Index: the 0-based position of the first occurrence, or -1
Index(s, sub) ==
  LET hits == {i \in 0..(Len(s) - Len(sub)) : HasAt(s, sub, i)}
  IN  IF hits = {} THEN -1
      ELSE CHOOSE i \in hits : \A j \in hits : i <= j

Contains(s, sub) == Index(s, sub) >= 0

\* strings.Replace(s, old, new, n) for a non-empty old; n < 0 replaces all
RECURSIVE Replace(_, _, _, _)
Replace(s, old, new, n) ==
  LET x == Index(s, old)
  IN  IF n = 0 \/ x < 0 THEN s
      ELSE Slice(s, 0, x) \o new
             \o Replace(Slice(s, x + Len(old), Len(s)), old, new, n - 1)

\* strings.Repeat for a count >= 0
RECURSIVE Repeat(_, _)
Repeat(s, count) == IF count <= 0 THEN <<>> ELSE s \o Repeat(s, count - 1)

Digit(d) == <<"0", "1", "2", "3", "4", "5", "6", "7", "8", "9">>[d + 1]

\* strconv.Itoa / %v of a non-negative int
RECURSIVE Itoa(_)
Itoa(n) == IF n < 10 THEN <<Digit(n)>>
           ELSE Itoa(n \div 10) \o <<Digit(n % 10)>>

\* Go's integer division truncates toward zero
GoDiv(a, b) == IF a >= 0 THEN a \div b ELSE -((-a) \div b)

(***************************************************************************)
(* The accumulator.                                                        *)
(***************************************************************************)
\* make([]string, n): n empty strings
MakeLineBad(n) == <<>>
MakeLine(n) == [i \in 1..n |-> <<>>]

\* the capacity append gives a slice that is full (runtime growslice, small
\* slices of 16-byte elements: 0 -> 1, then doubling)
GrowCap(c) == IF c = 0 THEN 1 ELSE 2 * c

\* finishExistingLine: the rows after the flush
finishExistingLine(vals, temp) ==
  IF Len(temp) > 0 THEN Append(vals, temp) ELSE vals

\* the rows of Values that share TempValues' backing array after the flush
flushShared(vals, temp, sh) ==
  IF Len(temp) > 0 THEN sh \cup {Len(vals) + 1} ELSE sh

\* the loop of AppendDataWithLabel: the last 0-based index of key, or -1
FoundBad(keys, key) == -1
Found(keys, key) ==
  LET hits == {i \in 0..(Len(keys) - 1) : keys[i + 1] = key}
  IN  IF hits = {} THEN -1
      ELSE CHOOSE i \in hits : \A j \in hits : j <= i

NoOut == [op |-> "none", arg |-> <<>>, lines |-> <<>>, objs |-> <<>>,
          header |-> <<>>, rows |-> <<>>, defaultKeys |-> <<>>]

Init ==
  /\ Keys = <<>>
  /\ Labels = <<>>
  /\ Values = <<>>
  /\ TempValues = <<>>
  /\ tempCap = 0
  /\ shared = {}
  /\ out = NoOut
  /\ panicked = FALSE
  /\ started = 0
  /\ inserted = <<>>
  /\ relabelled = FALSE

StartLine ==
  /\ ~panicked
  /\ started < MaxStart
  /\ Len(Values) < MaxRows
  /\ Values' = finishExistingLine(Values, TempValues)
  /\ TempValues' = MakeLine(Len(Keys))
  /\ tempCap' = Len(Keys)
  /\ shared' = {}
  /\ started' = started + 1
  /\ out' = NoOut
  /\ UNCHANGED <<Keys, Labels, panicked, inserted, relabelled>>

\* history: the (key, label) pairs in the order the caller first gave them
\* (relabelled: some key was given again with another label), and the
\* number of rows the caller began (a first field on a writer that
\* never had StartLine called begins the first row)
NoteInsert(key, label) ==
  IF \E i \in DOMAIN inserted : inserted[i].key = key
  THEN inserted
  ELSE Append(inserted, [key |-> key, label |-> label])

NoteRelabel(key, label) ==
  \/ relabelled
  \/ \E i \in DOMAIN inserted :
       inserted[i].key = key /\ inserted[i].label # label

NoteStarted == IF started = 0 THEN 1 ELSE started

AppendDataWithLabel(key, value, label) ==
  LET found == Found(Keys, key) IN
  /\ ~panicked
  /\ found = -1 => Len(Keys) < MaxCols
  /\ IF found = -1
     THEN /\ Keys' = Append(Keys, key)
          /\ Labels' = Append(Labels, label)
          /\ TempValues' = Append(TempValues, value)
          /\ IF Len(TempValues) < tempCap
             THEN UNCHANGED <<tempCap, shared>>
             ELSE /\ tempCap' = GrowCap(tempCap)
                  /\ shared' = {}
          /\ UNCHANGED <<Values, panicked>>
     ELSE IF found < Len(TempValues)
     THEN /\ TempValues' = [TempValues EXCEPT ![found + 1] = value]
          /\ Values' = [i \in DOMAIN Values |->
                          IF i \in shared /\ found < Len(Values[i])
                          THEN [Values[i] EXCEPT ![found + 1] = value]
                          ELSE Values[i]]
          /\ UNCHANGED <<Keys, Labels, tempCap, shared, panicked>>
     ELSE /\ panicked' = TRUE
          /\ UNCHANGED <<Keys, Labels, Values, TempValues, tempCap, shared>>
  /\ inserted' = NoteInsert(key, label)
  /\ relabelled' = NoteRelabel(key, label)
  /\ started' = NoteStarted
  /\ out' = NoOut

AppendData(key, value) == AppendDataWithLabel(key, value, key)

DoAppendData == \E k \in KeySet, v \in ValueSet : AppendData(k, v)

DoAppendDataWithLabel ==
  \E k \in KeySet, v \in ValueSet, l \in LabelSet : AppendDataWithLabel(k, v, l)

\* The accumulator alone. The values a caller gives decide neither the
\* columns nor the length of a row, so one value stands for them here.
AccumValueSet == {<<"1">>}

AccumAppendData == \E k \in KeySet, v \in AccumValueSet : AppendData(k, v)

AccumAppendDataWithLabel ==
  \E k \in KeySet, v \in AccumValueSet, l \in LabelSet :
    AppendDataWithLabel(k, v, l)

NextAccum == StartLine \/ AccumAppendData \/ AccumAppendDataWithLabel

SpecAccum == Init /\ [][NextAccum]_vars
(***************************************************************************)
(* Renderers.                                                              *)
(***************************************************************************)
\* a renderer may run when its flush keeps Values within the model's bound
CanRender == /\ ~panicked
             /\ Len(finishExistingLine(Values, TempValues)) <= MaxRows

\* every renderer starts with finishExistingLine and leaves the rest of the
\* accumulator alone
Flush == /\ Values' = finishExistingLine(Values, TempValues)
         /\ shared' = flushShared(Values, TempValues, shared)
         /\ UNCHANGED <<TempValues, tempCap, started, inserted, relabelled>>

\* data[k] = row[i] for i, k := range keys; a later index overwrites
RowMap(keys, row) == [k \in Range(keys) |-> row[Found(keys, k) + 1]]

\* whether row[i] is in range for every index of keys
RowCovers(vals, r, keys) == /\ r <= Len(vals)
                            /\ Len(keys) <= Len(vals[r])

WriteSingleObjectJSON ==
  LET vals == finishExistingLine(Values, TempValues) IN
  /\ CanRender
  /\ Flush
  /\ IF Len(Keys) > 0 /\ ~RowCovers(vals, 1, Keys)
     THEN /\ panicked' = TRUE
          /\ out' = [NoOut EXCEPT !.op = "json1"]
     ELSE /\ panicked' = FALSE
          /\ out' = [NoOut EXCEPT !.op = "json1",
                       !.objs = <<IF Len(Keys) = 0 THEN <<>>
                                  ELSE RowMap(Keys, vals[1])>>]
  /\ UNCHANGED <<Keys, Labels>>

WriteMultipleObjectsJSON ==
  LET vals == finishExistingLine(Values, TempValues) IN
  /\ CanRender
  /\ Flush
  /\ IF \E r \in 1..Len(vals) : ~RowCovers(vals, r, Keys)
     THEN /\ panicked' = TRUE
          /\ out' = [NoOut EXCEPT !.op = "jsonN"]
     ELSE /\ panicked' = FALSE
          /\ out' = [NoOut EXCEPT !.op = "jsonN",
                       !.objs = [r \in 1..Len(vals) |-> RowMap(Keys, vals[r])]]
  /\ UNCHANGED <<Keys, Labels>>

RECURSIVE MaxLen(_)
MaxLen(labels) ==
  IF labels = <<>> THEN 0
  ELSE LET m == MaxLen(Tail(labels))
       IN  IF Len(Head(labels)) > m THEN Len(Head(labels)) ELSE m

\* fmt.Printf("%<width>s : %s\n", label, value) without the newline
KeyValueLine(width, label, value) ==
  Repeat(<<" ">>, width - Len(label)) \o label \o <<" ", ":", " ">> \o value

WriteKeyValues ==
  LET vals == finishExistingLine(Values, TempValues)
      longestLabelLength == MaxLen(Labels)
      \* the lines printed before Values[0][i] goes out of range
      n == IF Len(vals) = 0 THEN 0
           ELSE IF Len(vals[1]) < Len(Keys) THEN Len(vals[1]) ELSE Len(Keys)
  IN
  /\ CanRender
  /\ Flush
  /\ panicked' = (n < Len(Keys))
  /\ out' = [NoOut EXCEPT !.op = "kv",
               !.lines = [i \in 1..n |->
                  KeyValueLine(longestLabelLength, Labels[i], vals[1][i])]]
  /\ UNCHANGED <<Keys, Labels>>

WriteTable ==
  LET vals == finishExistingLine(Values, TempValues) IN
  /\ CanRender
  /\ Flush
  /\ out' = [NoOut EXCEPT !.op = "table",
               !.header = IF Len(Keys) > 0 THEN Labels ELSE <<>>,
               !.rows = vals]
  /\ UNCHANGED <<Keys, Labels, panicked>>

\* Replace the nth occurrence of old in s by new: the loop from m, i
RECURSIVE replaceNthLoop(_, _, _, _, _, _)
replaceNthLoop(s, old, new, n, m, i) ==
  IF m > n THEN s
  ELSE LET x == Index(Slice(s, i, Len(s)), old)
       IN  IF x < 0 THEN s
           ELSE IF m = n
           THEN Slice(s, 0, i + x) \o new \o Slice(s, i + x + Len(old), Len(s))
           ELSE replaceNthLoop(s, old, new, n, m + 1, i + x + Len(old))

replaceNth(s, old, new, n) == replaceNthLoop(s, old, new, n, 1, 0)

\* byLen.Less
Less(a, b) == Len(a) > Len(b)

\* sort.Sort on fewer than 12 elements is an insertion sort: each element
\* moves left while it is Less than its left neighbour
RECURSIVE insertLeft(_, _)
insertLeft(sorted, x) ==
  IF sorted = <<>> \/ ~Less(x, sorted[Len(sorted)]) THEN Append(sorted, x)
  ELSE Append(insertLeft(SubSeq(sorted, 1, Len(sorted) - 1), x),
              sorted[Len(sorted)])

RECURSIVE sortByLen(_)
sortByLen(keys) ==
  IF keys = <<>> THEN <<>>
  ELSE insertLeft(sortByLen(SubSeq(keys, 1, Len(keys) - 1)), keys[Len(keys)])

\* fmt.Sprintf("$%v$", index)
Placeholder(index) == <<"$">> \o Itoa(index) \o <<"$">>

\* regexp.MustCompile(name).FindStringIndex(output) is non-empty; the keys of
\* KeySet hold no regexp metacharacter, so the pattern matches its own text
reFinds(name, output) == Contains(output, name)

\* the first loop over ow.Keys: keys become placeholders, from index i (0-based)
RECURSIVE toPlaceholders(_, _, _)
toPlaceholders(output, keys, i) ==
  IF i >= Len(keys) THEN output
  ELSE toPlaceholders(
         IF reFinds(keys[i + 1], output)
         THEN replaceNth(output, keys[i + 1], Placeholder(i), 1)
         ELSE output,
         keys, i + 1)

\* the second loop over ow.Keys: placeholders become customMap values
RECURSIVE toValues(_, _, _, _)
toValues(output, keys, customMap, i) ==
  IF i >= Len(keys) THEN output
  ELSE toValues(
         IF Contains(output, Placeholder(i))
         THEN Replace(output, Placeholder(i), customMap[keys[i + 1]], 1)
         ELSE output,
         keys, customMap, i + 1)

\* the two strings.Replace calls for \t and \n
Unescape(output) ==
  Replace(Replace(output, <<"\\", "t">>, <<"\t">>, -1),
          <<"\\", "n">>, <<"\n">>, -1)

\* the body of "for range ow.Values": one printed line
RenderLine(fields, keys, customMap) ==
  Unescape(toValues(toPlaceholders(fields, keys, 0), keys, customMap, 0))

\* the row customMap is built from
CustomRow(vals, r) == vals[1]

WriteCustomOutput(fields) ==
  LET vals == finishExistingLine(Values, TempValues)
      defaultKeys == Keys
      sorted == sortByLen(Keys)
  IN
  /\ CanRender
  /\ Flush
  /\ Keys' = sorted
  /\ IF Len(defaultKeys) > 0 /\ ~RowCovers(vals, 1, defaultKeys)
     THEN /\ panicked' = TRUE
          /\ out' = [NoOut EXCEPT !.op = "custom", !.arg = fields,
                       !.defaultKeys = defaultKeys]
     ELSE /\ panicked' = FALSE
          /\ out' = [NoOut EXCEPT !.op = "custom", !.arg = fields,
                       !.defaultKeys = defaultKeys,
                       !.lines = [r \in 1..Len(vals) |->
                          RenderLine(fields, sorted,
                            IF Len(defaultKeys) = 0 THEN <<>>
                            ELSE RowMap(defaultKeys, CustomRow(vals, r)))]]
  /\ UNCHANGED Labels

DoWriteCustomOutput == \E fields \in TemplateSet : WriteCustomOutput(fields)

Next == \/ StartLine
        \/ DoAppendData
        \/ DoAppendDataWithLabel
        \/ WriteSingleObjectJSON
        \/ WriteMultipleObjectsJSON
        \/ WriteKeyValues
        \/ WriteTable
        \/ DoWriteCustomOutput

Spec == Init /\ [][Next]_vars

(***************************************************************************)
(* Header and subheader writers.                                           *)
(***************************************************************************)
HeaderLabels == {Repeat(<<"x">>, n) : n \in 0..MaxLabelLen}

\* count := (72 - len(label) + 2) / 2
SubheaderCount(label) == GoDiv(RuleWidth - Len(label) + 2, 2)

WriteSubheader(label) ==
  LET count == SubheaderCount(label) IN
  /\ ~panicked
  /\ IF count < 0
     THEN /\ panicked' = TRUE
          /\ out' = [NoOut EXCEPT !.op = "subheader", !.arg = label]
     ELSE /\ panicked' = FALSE
          /\ out' = [NoOut EXCEPT !.op = "subheader", !.arg = label,
                       !.lines = <<Repeat(<<"-">>, count) \o <<" ">> \o label
                                     \o <<" ">> \o Repeat(<<"-">>, count)>>]
  /\ UNCHANGED <<Keys, Labels, Values, TempValues, tempCap, shared,
                 started, inserted, relabelled>>

WriteHeader(label) ==
  /\ ~panicked
  /\ out' = [NoOut EXCEPT !.op = "header", !.arg = label,
               !.lines = <<label \o <<":">>>>]
  /\ UNCHANGED <<Keys, Labels, Values, TempValues, tempCap, shared,
                 panicked, started, inserted, relabelled>>

DoWriteSubheader == \E label \in HeaderLabels : WriteSubheader(label)

DoWriteHeader == \E label \in HeaderLabels : WriteHeader(label)

NextHeader == DoWriteSubheader \/ DoWriteHeader

SpecHeader == Init /\ [][NextHeader]_vars
(***************************************************************************)
(* Properties.                                                             *)
(***************************************************************************)
RenderOps == {"json1", "jsonN", "kv", "table", "custom"}

InsertedKeys == [i \in DOMAIN inserted |-> inserted[i].key]
InsertedLabels == [i \in DOMAIN inserted |-> inserted[i].label]

\* C1: WriteCustomOutput prints, for every finalized row r, the template
\* rendered with the values that row r holds (not those of another row).
C1_PerRowValues ==
  (out.op = "custom" /\ ~panicked) =>
    \A r \in 1..Len(Values) :
      Len(Values[r]) >= Len(out.defaultKeys) /\ Len(out.defaultKeys) > 0 =>
        out.lines[r] = RenderLine(out.arg, Keys, RowMap(out.defaultKeys, Values[r]))

\* C2: a renderer step changes neither the key sequence nor the label
\* sequence nor any row that was finalized before it.
C2_RenderersOnlyFlush ==
  [][out'.op \in RenderOps =>
       /\ Keys' = Keys
       /\ Labels' = Labels
       /\ Len(Values') >= Len(Values)
       /\ SubSeq(Values', 1, Len(Values)) = Values]_vars

\* C3: WriteMultipleObjectsJSON always completes and emits one object per
\* finalized row, in row order, each mapping every column key to the row's
\* value in that column.
C3_JsonArrayComplete ==
  out.op = "jsonN" =>
    /\ ~panicked
    /\ Len(out.objs) = Len(Values)
    /\ \A r \in 1..Len(Values) :
         /\ DOMAIN out.objs[r] = Range(Keys)
         /\ \A c \in 1..Len(Keys) :
              c <= Len(Values[r]) => out.objs[r][Keys[c]] = Values[r][c]

\* C5: the column registry holds exactly the distinct keys given, once each,
\* in first-insertion order, each with the label of its first insertion.
C5_ColumnRegistry ==
  /\ Keys = InsertedKeys
  /\ Labels = InsertedLabels
  /\ Cardinality(Range(Keys)) = Len(Keys)

C5_Witness ==
  /\ Len(Keys) = 2
  /\ relabelled

\* C6: a row-0 renderer that finds no finalized row panics.
C6_EmptyFailsLoudly ==
  (out.op \in {"json1", "kv"} /\ Len(Values) = 0) => panicked

\* C7: the subheader line of a label that fits is RuleWidth characters wide,
\* with as many dashes on the left as on the right, or one more.
C7_SubheaderWidth ==
  (out.op = "subheader" /\ Len(out.arg) + 2 <= RuleWidth) =>
    /\ ~panicked
    /\ LET line == out.lines[1]
           left == Index(line, <<" ">>)
           right == Len(line) - left - 2 - Len(out.arg)
       IN  /\ Len(line) = RuleWidth
           /\ left - right \in {0, 1}

\* C8: no row is finalized twice: there are never more finalized rows than
\* rows the caller began.
C8_FinalizedOnce == Len(Values) <= started

\* C9: the in-progress row always has one value per column, and a row that
\* a flush appends to Values has as many values as there are columns then.
C9_RowWidth ==
  [][/\ Len(TempValues) = Len(Keys)
     /\ Len(TempValues') = Len(Keys')
     /\ Len(Values') > Len(Values) =>
          Len(Values'[Len(Values')]) = Len(Keys')]_vars

C9_Witness ==
  /\ Len(Values) = 2
  /\ Len(Values[1]) < Len(Values[2])
  /\ Len(Values[2]) = Len(Keys)
(***************************************************************************)
(* The substitution the template renderer is specified to perform, kept    *)
(* as segments: template text still open to matching (lit) and text that   *)
(* is closed to it (an inserted value, or a protected occurrence).         *)
(***************************************************************************)
LitSeg(s) == [lit |-> TRUE, s |-> s]
FixSeg(s) == [lit |-> FALSE, s |-> s]

RECURSIVE Flatten(_)
Flatten(segs) == IF segs = <<>> THEN <<>>
                 ELSE Head(segs).s \o Flatten(Tail(segs))

\* every occurrence of key in open text is closed, its text kept
RECURSIVE ProtectAll(_, _)
ProtectAll(segs, key) ==
  IF segs = <<>> THEN <<>>
  ELSE LET h == Head(segs)
           p == Index(h.s, key)
       IN  IF h.lit /\ p >= 0
           THEN <<LitSeg(Slice(h.s, 0, p)), FixSeg(key)>>
                  \o ProtectAll(<<LitSeg(Slice(h.s, p + Len(key), Len(h.s)))>>
                                  \o Tail(segs), key)
           ELSE <<h>> \o ProtectAll(Tail(segs), key)

\* the first occurrence of key in open text becomes the closed text val;
\* with protect, the later occurrences of key are closed as they stand
RECURSIVE SubstFirst(_, _, _, _)
SubstFirst(segs, key, val, protect) ==
  IF segs = <<>> THEN <<>>
  ELSE LET h == Head(segs)
           p == Index(h.s, key)
           rest == <<LitSeg(Slice(h.s, p + Len(key), Len(h.s)))>> \o Tail(segs)
       IN  IF h.lit /\ p >= 0
           THEN <<LitSeg(Slice(h.s, 0, p)), FixSeg(val)>>
                  \o (IF protect THEN ProtectAll(rest, key) ELSE rest)
           ELSE <<h>> \o SubstFirst(Tail(segs), key, val, protect)

RECURSIVE SubstKeys(_, _, _, _, _)
SubstKeys(segs, keys, map, protect, i) ==
  IF i > Len(keys) THEN segs
  ELSE SubstKeys(SubstFirst(segs, keys[i], map[keys[i]], protect),
                 keys, map, protect, i + 1)

SpecifiedLine(fields, keys, map, protect) ==
  Unescape(Flatten(SubstKeys(<<LitSeg(fields)>>, keys, map, protect, 1)))

ProperSubstring(a, b) == Len(a) < Len(b) /\ Contains(b, a)

\* the value row r holds in the column a key was first inserted as
ColumnOf(key) == CHOOSE i \in DOMAIN inserted : inserted[i].key = key
RowValues(r) == [k \in Range(InsertedKeys) |-> Values[r][ColumnOf(k)]]

\* C4: when a key is a proper substring of another and the template holds
\* the longer one, the line of the first row is the template with the longer
\* key's text rendered as the longer key's value, no occurrence of the
\* longer key's text having the shorter key's value spliced into it.
C4_LongerKeyFirst ==
  ( /\ out.op = "custom"
    /\ ~panicked
    /\ \E a \in Range(Keys), b \in Range(Keys) :
         ProperSubstring(a, b) /\ Contains(out.arg, b) ) =>
    out.lines[1] = SpecifiedLine(out.arg, Keys, RowValues(1), TRUE)

\* C10: every printed line is the template with the first remaining
\* occurrence of each present key, longest key first, replaced by the key's
\* value, inserted values and placeholder-shaped template text untouched.
C10_CollisionFree ==
  (out.op = "custom" /\ ~panicked /\ Len(Keys) > 0) =>
    \A r \in 1..Len(out.lines) :
      out.lines[r] = SpecifiedLine(out.arg, Keys,
                                   RowMap(out.defaultKeys, Values[1]), FALSE)
====
